---- MODULE Spec2Model ----
(***************************************************************************)
(* Model of the twitter-app GraphQL API over its relational schema:        *)
(* the five tables (users, tweets, follows, likes, retweets) with their    *)
(* UNIQUE and FOREIGN KEY ... ON DELETE CASCADE constraints, the session   *)
(* that carries req.user, the documented mutations and the homeFeed query. *)
(*                                                                         *)
(* Representation.  users and tweets are sets of rows keyed by id.  The    *)
(* three junction tables are bags of their (a, b) column pairs: the number *)
(* of copies of a pair is the number of rows holding it, the k-th copy is  *)
(* the row with primary key <<a, b, k>>.  Their created_at column is read  *)
(* by no modelled query and is left out.  Ids stand for the UUIDs that     *)
(* gen_random_uuid() draws: a counter hands out ids that were never used.  *)
(***************************************************************************)
EXTENDS Integers, FiniteSets, Sequences, Bags, TLC

(* ------------------------------ bounds --------------------------------- *)
MaxUsers == 3        \* user rows inserted over a run
MaxEmails == 3       \* distinct e-mail addresses tried at signup
MaxTweets == 2       \* tweet rows inserted over a run
MaxTime == 1         \* CURRENT_TIMESTAMP ranges over 0..MaxTime
MaxSessions == 1     \* session cookies in use
MaxRows == 2         \* junction rows (follows, likes, retweets) held at once under Spec
MaxLikes == 2        \* likes rows held at once under SpecLikes
MaxFollows == 2      \* follows rows held at once under SpecFollows
MaxFeedRows == 2     \* junction rows held at once under SpecFeed
MaxAuthSessions == 2 \* session cookies in use under SpecAuth
MaxCountRows == 4    \* likes and retweets rows held at once under SpecCounts
MaxPageTweets == 3   \* tweet rows inserted over a run under SpecPages
MaxProfileRows == 4  \* follows rows held at once under SpecProfile
MaxRequests == 2     \* requests in progress at once
MaxRaceTweets == 1
MaxBatch == 3        \* user ids in one batch of the loader
MaxEmailLength == 3  \* characters of an e-mail address given to createUserAvatarUrl

(* ------------------------- program constants --------------------------- *)
MinPasswordLength == 6
MaxContentLength == 280
DefaultLimit == 20
DefaultOffset == 0

Min(a, b) == IF a < b THEN a ELSE b

NoUser == 0
UserIds == 1..MaxUsers
TweetIds == 1..MaxTweets
Emails == 1..MaxEmails
\* Addresses are only compared for equality, so the k-th insert into users tries
\* one of the first k addresses: a fresh one or any that was tried before.
SignupEmails(k) == 1..Min(MaxEmails, k)
Sessions == 1..MaxSessions
Passwords == {"12345", "secret"}
\* under SpecAuth accounts differ in their passwords, and login is also tried
\* with a password no account has
SignupPasswords == Passwords \cup {"password123"}
LoginPasswords == SignupPasswords \cup {"wrongpassword"}
AuthSessions == 1..MaxAuthSessions
Requests == 1..MaxRequests
Names == {"", "Ann"}
\* A content string is modelled by its length and by the length that is left
\* of it once the white space at both ends is taken off.
Text(length, trimmed) == [length |-> length, trimmed |-> trimmed]
\* the empty text, the longest text accepted and the shortest text too long
Contents == {Text(0, 0), Text(MaxContentLength, MaxContentLength),
             Text(MaxContentLength + 1, MaxContentLength + 1)}
\* further texts for createTweet: one character, one blank, a text that ends in
\* blanks, a text of 280 characters followed by a blank, and 281 blanks
TweetContents ==
    Contents \cup {Text(1, 1), Text(1, 0), Text(MaxContentLength, 1),
                   Text(MaxContentLength + 1, MaxContentLength), Text(MaxContentLength + 1, 0)}
Limits == {1, 2, DefaultLimit}
Offsets == {DefaultOffset, 1, 2, 3}

VARIABLES
    users,        \* table users: rows [id, email, password_hash, name]
    tweets,       \* table tweets: rows [id, user_id, content, created_at]
    follows,      \* table follows: bag of <<follower_id, following_id>>
    likes,        \* table likes: bag of <<user_id, tweet_id>>
    retweets,     \* table retweets: bag of <<user_id, tweet_id>>
    sessions,     \* session store: the user id each session cookie is logged in as, or NoUser
    now,          \* CURRENT_TIMESTAMP of the latest insert into tweets
    nextUserId,   \* the next unused users.id
    nextTweetId,  \* the next unused tweets.id
    response,     \* the answer to the latest request: [op, user, error, rows], error "" on success
    requests,     \* the requests in progress that take several steps: [op, pc, user, tweet, content]
    tweets_count  \* column users.tweets_count, by users.id: the counter the tweet transaction increments

vars == <<users, tweets, follows, likes, retweets,
          sessions, now, nextUserId, nextTweetId, response, requests, tweets_count>>
db == <<users, tweets, follows, likes, retweets>>

(* ----------------------------- helpers --------------------------------- *)

\* bcryptjs.hash(password, 10); the passwords of the model are shorter than
\* the 72 bytes bcrypt reads
hash(password) == <<"bcrypt", 10, password>>

\* mutant of compare: a verification that accepts any password
compareAny(inputPassword, storedHash) == TRUE

\* bcryptjs.compare(inputPassword, storedHash)
compare(inputPassword, storedHash) == storedHash = hash(inputPassword)

\* a row of users / of tweets (the columns the modelled requests read or write)
UserRecord(id, email, password_hash, name) ==
    [id |-> id, email |-> email, password_hash |-> password_hash, name |-> name]
TweetRecord(id, user_id, content, created_at) ==
    [id |-> id, user_id |-> user_id, content |-> content, created_at |-> created_at]

UserExists(u) == \E r \in users : r.id = u
TweetExists(t) == \E r \in tweets : r.id = t
TweetRow(t) == CHOOSE r \in tweets : r.id = t
\* mutant of EmailTaken: users.email without its UNIQUE constraint
EmailTakenOff(e) == FALSE
EmailTaken(e) == \E r \in users : r.email = e

(* ------------------------- relational layer ---------------------------- *)
\* rows of a junction table, each with its primary key
Rows(table) == UNION {{<<p[1], p[2], k>> : k \in 1..CopiesIn(p, table)} : p \in BagToSet(table)}

\* the rows of a junction table whose column pair is in keep
Restrict(table, keep) == [p \in DOMAIN table \cap keep |-> table[p]]

\* mutants of UniqueViolation: no constraint, and one on the columns swapped
UniqueViolationOff(table, a, b) == FALSE
UniqueViolationSwapped(table, a, b) == BagIn(<<b, a>>, table)
\* mutant of UniqueViolation: the constraint put on the second column alone
UniqueViolationSecondColumn(table, a, b) == \E q \in DOMAIN table : q[2] = b /\ table[q] > 0

\* UNIQUE(a, b): an insert of a pair the table already holds is refused
UniqueViolation(table, a, b) == BagIn(<<a, b>>, table)

\* mutant of FkUser: the column without its foreign key
FkUserOff(u) == TRUE

\* user_id / follower_id / following_id ... REFERENCES users(id)
FkUser(u) == UserExists(u)

\* tweet_id ... REFERENCES tweets(id)
FkTweet(t) == TweetExists(t)

InsertRow(table, a, b) == table (+) SetToBag({<<a, b>>})

\* mutant of DeleteRow: DELETE ... WHERE user_id = a, the second column forgotten
DeleteRowFirstColumn(table, a, b) == Restrict(table, {q \in DOMAIN table : q[1] # a})

\* DELETE FROM table WHERE (first column) = a AND (second column) = b
DeleteRow(table, a, b) == Restrict(table, {q \in DOMAIN table : q # <<a, b>>})

\* mutant of CascadeTweets: tweet_id without ON DELETE CASCADE
CascadeTweetsNone(table, gone) == table

\* tweet_id ... ON DELETE CASCADE, for the deleted tweets gone
CascadeTweets(table, gone) == Restrict(table, {q \in DOMAIN table : q[2] \notin gone})

\* user_id ... ON DELETE CASCADE on likes and retweets
CascadeUser(table, u) == Restrict(table, {q \in DOMAIN table : q[1] # u})

\* mutant of CascadeFollows: the cascade on follower_id alone
CascadeFollowsFollowerOnly(table, u) == Restrict(table, {q \in DOMAIN table : q[1] # u})

\* follower_id, following_id ... ON DELETE CASCADE on follows
CascadeFollows(table, u) == Restrict(table, {q \in DOMAIN table : q[1] # u /\ q[2] # u})

\* tweets.user_id ... ON DELETE CASCADE: the tweets that go with user u
TweetsOf(u) == {r \in tweets : r.user_id = u}

\* SELECT COUNT(*) FROM likes WHERE tweet_id = ?
LikesCount(t) == Cardinality({r \in Rows(likes) : r[2] = t})

\* SELECT COUNT(*) FROM retweets WHERE tweet_id = ?
RetweetsCount(t) == Cardinality({r \in Rows(retweets) : r[2] = t})

\* mutant of FollowersCount: the count taken on the column follower_id
FollowersCountOfFollower(u) == Cardinality({r \in Rows(follows) : r[1] = u})

\* SELECT COUNT(*) as followers FROM follows WHERE following_id = ?
FollowersCount(u) == Cardinality({r \in Rows(follows) : r[2] = u})

\* SELECT COUNT(*) as following FROM follows WHERE follower_id = ?
FollowingCount(u) == Cardinality({r \in Rows(follows) : r[1] = u})

\* SELECT EXISTS(SELECT 1 FROM follows WHERE follower_id = ? AND following_id = ?)
IsFollowing(a, b) == \E r \in Rows(follows) : r[1] = a /\ r[2] = b

\* mutants of OwnTweet: the author is never, or always, taken for the caller
OwnTweetNever(u, t) == FALSE
OwnTweetAlways(u, t) == TRUE

\* tweet t is u's own: the test behind "User cannot like own tweet", "User
\* cannot retweet own tweet" and "Only tweet owner can delete"
OwnTweet(u, t) == TweetRow(t).user_id = u

\* the tweet a like or unlike answers with, read from the likes table as the
\* mutation leaves it: likes_count is the COUNT(*) of the likes rows of tweet t,
\* is_liked_by_me whether user me has one of them
LikedTweet(table, t, me) ==
    [id |-> t, likes_count |-> Cardinality({r \in Rows(table) : r[2] = t}),
     is_liked_by_me |-> BagIn(<<me, t>>, table)]

\* req.user of a request carrying session s
ReqUser(s) == sessions[s]

Reply(op, user, error, rows) == [op |-> op, user |-> user, error |-> error, rows |-> rows]

\* a request in progress: what it is, where it stands and what it works on
Request(op, pc, user, tweet, content) ==
    [op |-> op, pc |-> pc, user |-> user, tweet |-> tweet, content |-> content, error |-> ""]
\* the request answered, with the error it was answered with ("" for none)
Done(request, error) == [request EXCEPT !.pc = "done", !.error = error]

\* no request in progress
Idle == Request("none", "idle", NoUser, 0, Text(0, 0))

Init ==
    /\ users = {}
    /\ tweets = {}
    /\ follows = EmptyBag
    /\ likes = EmptyBag
    /\ retweets = EmptyBag
    /\ sessions = [s \in Sessions \cup AuthSessions |-> NoUser]
    /\ now = 0
    /\ nextUserId = 1
    /\ nextTweetId = 1
    /\ response = Reply("none", NoUser, "", <<>>)
    /\ requests = [k \in Requests |-> Idle]
    /\ tweets_count = [u \in UserIds |-> 0]

(* ---------------------------- authentication --------------------------- *)
Signup(s, email, password, name) ==
    /\ IF name = ""
       THEN /\ response' = Reply("signup", NoUser, "Name is required", <<>>)
            /\ UNCHANGED <<users, sessions, nextUserId>>
       ELSE IF Len(password) < MinPasswordLength
       THEN /\ response' = Reply("signup", NoUser, "Password must be at least 6 characters", <<>>)
            /\ UNCHANGED <<users, sessions, nextUserId>>
       ELSE IF EmailTaken(email)
       THEN /\ response' = Reply("signup", NoUser, "duplicate key value violates unique constraint", <<>>)
            /\ UNCHANGED <<users, sessions, nextUserId>>
       ELSE /\ users' = users \cup {UserRecord(nextUserId, email, hash(password), name)}
            /\ sessions' = [sessions EXCEPT ![s] = nextUserId]
            /\ nextUserId' = nextUserId + 1
            /\ response' = Reply("signup", nextUserId, "", <<>>)
    /\ UNCHANGED <<tweets, follows, likes, retweets, now, nextTweetId, requests, tweets_count>>

Login(s, email, password) ==
    /\ IF \E r \in users : r.email = email /\ compare(password, r.password_hash)
       THEN LET r == CHOOSE r \in users : r.email = email /\ compare(password, r.password_hash)
            IN /\ sessions' = [sessions EXCEPT ![s] = r.id]
               /\ response' = Reply("login", r.id, "", <<>>)
       ELSE /\ response' = Reply("login", NoUser, "Invalid credentials", <<>>)
            /\ UNCHANGED sessions
    /\ UNCHANGED <<db, now, nextUserId, nextTweetId, requests, tweets_count>>

\* mutant of Logout: the session is left in the store
LogoutKeepsSession(s) ==
    /\ response' = Reply("logout", NoUser, "", <<>>)
    /\ UNCHANGED <<db, sessions, now, nextUserId, nextTweetId, requests, tweets_count>>

Logout(s) ==
    /\ sessions' = [sessions EXCEPT ![s] = NoUser]
    /\ response' = Reply("logout", NoUser, "", <<>>)
    /\ UNCHANGED <<db, now, nextUserId, nextTweetId, requests, tweets_count>>

\* DELETE FROM users WHERE id = u, with the cascades of the schema
DeleteUser(u) ==
    /\ UserExists(u)
    /\ users' = {r \in users : r.id # u}
    /\ tweets' = tweets \ TweetsOf(u)
    /\ follows' = CascadeFollows(follows, u)
    /\ likes' = CascadeTweets(CascadeUser(likes, u), {r.id : r \in TweetsOf(u)})
    /\ retweets' = CascadeTweets(CascadeUser(retweets, u), {r.id : r \in TweetsOf(u)})
    /\ response' = Reply("deleteUser", u, "", <<>>)
    /\ UNCHANGED <<sessions, now, nextUserId, nextTweetId, requests, tweets_count>>

(* -------------------------------- tweets ------------------------------- *)
\* String.prototype.trim
trim(value) == Text(value.trimmed, value.trimmed)

\* mutant of validate: the length test off by one
validateOffByOne(value) ==
    IF trim(value).length = 0 THEN "Content is required"
    ELSE IF value.length >= MaxContentLength THEN "Content must be 280 characters or less"
    ELSE ""

\* validate of the content argument: the error it throws, "" when it returns true
validate(value) ==
    IF trim(value).length = 0 THEN "Content is required"
    ELSE IF value.length > MaxContentLength THEN "Content must be 280 characters or less"
    ELSE ""

\* sanitizeHTML on a text without markup, which it returns as it is
\* (every text of Contents and TweetContents is one)
sanitizeHTML(content) == content

CreateTweet(s, content) ==
    /\ IF validate(content) # ""
       THEN /\ response' = Reply("createTweet", ReqUser(s), validate(content), <<>>)
            /\ UNCHANGED <<tweets, now, nextTweetId>>
       ELSE IF ReqUser(s) = NoUser
       THEN /\ response' = Reply("createTweet", NoUser, "Unauthorized", <<>>)
            /\ UNCHANGED <<tweets, now, nextTweetId>>
       ELSE IF ~FkUser(ReqUser(s))
       THEN /\ response' = Reply("createTweet", ReqUser(s), "violates foreign key constraint", <<>>)
            /\ UNCHANGED <<tweets, now, nextTweetId>>
       ELSE /\ \E at \in {now, now + 1} :
                 /\ tweets' = tweets \cup {TweetRecord(nextTweetId, ReqUser(s), sanitizeHTML(content), at)}
                 /\ now' = at
            /\ nextTweetId' = nextTweetId + 1
            /\ response' = Reply("createTweet", ReqUser(s), "", <<>>)
    /\ UNCHANGED <<users, follows, likes, retweets, sessions, nextUserId, requests, tweets_count>>

DeleteTweet(s, t) ==
    /\ IF ReqUser(s) = NoUser
       THEN /\ response' = Reply("deleteTweet", NoUser, "Unauthorized", <<>>)
            /\ UNCHANGED <<tweets, likes, retweets>>
       ELSE IF ~TweetExists(t)
       THEN /\ response' = Reply("deleteTweet", ReqUser(s), "Tweet not found", <<>>)
            /\ UNCHANGED <<tweets, likes, retweets>>
       ELSE IF ~OwnTweet(ReqUser(s), t)
       THEN /\ response' = Reply("deleteTweet", ReqUser(s), "Only tweet owner can delete", <<>>)
            /\ UNCHANGED <<tweets, likes, retweets>>
       ELSE /\ tweets' = {r \in tweets : r.id # t}
            /\ likes' = CascadeTweets(likes, {t})
            /\ retweets' = CascadeTweets(retweets, {t})
            /\ response' = Reply("deleteTweet", ReqUser(s), "", <<>>)
    /\ UNCHANGED <<users, follows, sessions, now, nextUserId, nextTweetId, requests, tweets_count>>

(* ------------------------ the tweet transaction ------------------------ *)
\* knex.transaction(async (trx) => { insert into tweets; increment
\* users.tweets_count }) as request k.  What the statements of a transaction
\* write is held back in requests[k] until COMMIT and is dropped by ROLLBACK;
\* the tables are what every other request sees.

\* BEGIN
TransactionBegin(k, user_id, content) ==
    /\ requests[k].pc = "idle"
    /\ requests' = [requests EXCEPT ![k] = Request("transaction", "insert", user_id, 0, content)]
    /\ UNCHANGED <<db, sessions, now, nextUserId, nextTweetId, response, tweets_count>>

\* mutant of TransactionInsert: the insert issued on knex instead of trx, which
\* commits it at once
TransactionInsertAutocommit(k) ==
    /\ requests[k].op = "transaction" /\ requests[k].pc = "insert"
    /\ IF ~FkUser(requests[k].user)
       THEN /\ requests' = [requests EXCEPT ![k] = Idle]
            /\ response' = Reply("transaction", requests[k].user, "violates foreign key constraint", <<>>)
            /\ UNCHANGED <<tweets, nextTweetId>>
       ELSE /\ requests' = [requests EXCEPT ![k].pc = "increment", ![k].tweet = nextTweetId]
            /\ tweets' = tweets \cup {TweetRecord(nextTweetId, requests[k].user, requests[k].content, now)}
            /\ nextTweetId' = nextTweetId + 1
            /\ UNCHANGED response
    /\ UNCHANGED <<users, follows, likes, retweets, sessions, now, nextUserId, tweets_count>>

\* trx('tweets').insert({ user_id, content }).returning('*'): a user_id that
\* no user has makes the statement throw, and the transaction is rolled back
TransactionInsert(k) ==
    /\ requests[k].op = "transaction" /\ requests[k].pc = "insert"
    /\ IF ~FkUser(requests[k].user)
       THEN /\ requests' = [requests EXCEPT ![k] = Idle]
            /\ response' = Reply("transaction", requests[k].user, "violates foreign key constraint", <<>>)
            /\ UNCHANGED nextTweetId
       ELSE /\ requests' = [requests EXCEPT ![k].pc = "increment", ![k].tweet = nextTweetId]
            /\ nextTweetId' = nextTweetId + 1
            /\ UNCHANGED response
    /\ UNCHANGED <<db, sessions, now, nextUserId, tweets_count>>

\* trx('users').where('id', user_id).increment('tweets_count'): the UPDATE
\* waits while another transaction holds its update of the same row
TransactionIncrement(k) ==
    /\ requests[k].op = "transaction" /\ requests[k].pc = "increment"
    /\ \A j \in Requests \ {k} :
           ~(requests[j].op = "transaction" /\ requests[j].pc = "commit"
             /\ requests[j].user = requests[k].user)
    /\ requests' = [requests EXCEPT ![k].pc = "commit"]
    /\ UNCHANGED <<db, sessions, now, nextUserId, nextTweetId, response, tweets_count>>

\* COMMIT: the callback has returned, both writes become visible together
TransactionCommit(k) ==
    /\ requests[k].op = "transaction" /\ requests[k].pc = "commit"
    /\ tweets' = tweets \cup {TweetRecord(requests[k].tweet, requests[k].user, requests[k].content, now)}
    /\ tweets_count' = [tweets_count EXCEPT ![requests[k].user] = @ + 1]
    /\ requests' = [requests EXCEPT ![k] = Idle]
    /\ response' = Reply("transaction", requests[k].user, "", <<>>)
    /\ UNCHANGED <<users, follows, likes, retweets, sessions, now, nextUserId, nextTweetId>>

\* ROLLBACK: a statement or the connection has failed at any point after
\* BEGIN, the callback throws and nothing that was written is kept
TransactionRollback(k) ==
    /\ requests[k].op = "transaction" /\ requests[k].pc \in {"insert", "increment", "commit"}
    /\ requests' = [requests EXCEPT ![k] = Idle]
    /\ response' = Reply("transaction", requests[k].user, "transaction rolled back", <<>>)
    /\ UNCHANGED <<db, sessions, now, nextUserId, nextTweetId, tweets_count>>

(* ---------------------------- likes, retweets -------------------------- *)
\* likeTweet as the steps that requests of several clients interleave:
\* the request arrives, the resolver validates it against what it reads, the
\* INSERT is run by the database under the constraints of the likes table.
LikeBegin(k, s, t) ==
    /\ requests[k].pc \in {"idle", "done"}
    /\ IF ReqUser(s) = NoUser
       THEN /\ response' = Reply("likeTweet", NoUser, "Unauthorized", <<>>)
            /\ requests' = [requests EXCEPT ![k] = Done(Request("likeTweet", "done", NoUser, t, Text(0, 0)), "Unauthorized")]
       ELSE /\ requests' = [requests EXCEPT ![k] = Request("likeTweet", "validate", ReqUser(s), t, Text(0, 0))]
            /\ UNCHANGED response
    /\ UNCHANGED <<db, sessions, now, nextUserId, nextTweetId, tweets_count>>

\* Validation: user cannot like own tweet, cannot like same tweet twice
LikeValidate(k) ==
    /\ requests[k].op = "likeTweet" /\ requests[k].pc = "validate"
    /\ IF ~TweetExists(requests[k].tweet)
       THEN /\ response' = Reply("likeTweet", requests[k].user, "Tweet not found", <<>>)
            /\ requests' = [requests EXCEPT ![k] = Done(@, "Tweet not found")]
       ELSE IF OwnTweet(requests[k].user, requests[k].tweet)
       THEN /\ response' = Reply("likeTweet", requests[k].user, "User cannot like own tweet", <<>>)
            /\ requests' = [requests EXCEPT ![k] = Done(@, "User cannot like own tweet")]
       ELSE IF UniqueViolation(likes, requests[k].user, requests[k].tweet)
       THEN /\ response' = Reply("likeTweet", requests[k].user, "User already liked this tweet", <<>>)
            /\ requests' = [requests EXCEPT ![k] = Done(@, "User already liked this tweet")]
       ELSE /\ requests' = [requests EXCEPT ![k].pc = "insert"]
            /\ UNCHANGED response
    /\ UNCHANGED <<db, sessions, now, nextUserId, nextTweetId, tweets_count>>

\* knex('likes').insert({ user_id, tweet_id }): UNIQUE(user_id, tweet_id) and
\* the foreign keys are checked by the database when the row is written
LikeInsert(k) ==
    /\ requests[k].op = "likeTweet" /\ requests[k].pc = "insert"
    /\ IF UniqueViolation(likes, requests[k].user, requests[k].tweet)
       THEN /\ response' = Reply("likeTweet", requests[k].user, "User already liked this tweet", <<>>)
            /\ requests' = [requests EXCEPT ![k] = Done(@, "User already liked this tweet")]
            /\ UNCHANGED likes
       ELSE IF ~(FkUser(requests[k].user) /\ FkTweet(requests[k].tweet))
       THEN /\ response' = Reply("likeTweet", requests[k].user, "violates foreign key constraint", <<>>)
            /\ requests' = [requests EXCEPT ![k] = Done(@, "violates foreign key constraint")]
            /\ UNCHANGED likes
       ELSE /\ likes' = InsertRow(likes, requests[k].user, requests[k].tweet)
            /\ response' = Reply("likeTweet", requests[k].user, "",
                                 <<LikedTweet(likes', requests[k].tweet, requests[k].user)>>)
            /\ requests' = [requests EXCEPT ![k] = Done(@, "")]
    /\ UNCHANGED <<users, tweets, follows, retweets, sessions, now, nextUserId, nextTweetId, tweets_count>>

\* the same three steps taken at once, for a request that no other interleaves
LikeTweet(s, t) ==
    /\ IF ReqUser(s) = NoUser
       THEN /\ response' = Reply("likeTweet", NoUser, "Unauthorized", <<>>)
            /\ UNCHANGED likes
       ELSE IF ~TweetExists(t)
       THEN /\ response' = Reply("likeTweet", ReqUser(s), "Tweet not found", <<>>)
            /\ UNCHANGED likes
       ELSE IF OwnTweet(ReqUser(s), t)
       THEN /\ response' = Reply("likeTweet", ReqUser(s), "User cannot like own tweet", <<>>)
            /\ UNCHANGED likes
       ELSE IF UniqueViolation(likes, ReqUser(s), t)
       THEN /\ response' = Reply("likeTweet", ReqUser(s), "User already liked this tweet", <<>>)
            /\ UNCHANGED likes
       ELSE IF ~(FkUser(ReqUser(s)) /\ FkTweet(t))
       THEN /\ response' = Reply("likeTweet", ReqUser(s), "violates foreign key constraint", <<>>)
            /\ UNCHANGED likes
       ELSE /\ likes' = InsertRow(likes, ReqUser(s), t)
            /\ response' = Reply("likeTweet", ReqUser(s), "", <<LikedTweet(likes', t, ReqUser(s))>>)
    /\ UNCHANGED <<users, tweets, follows, retweets, sessions, now, nextUserId, nextTweetId, requests, tweets_count>>

UnlikeTweet(s, t) ==
    /\ IF ReqUser(s) = NoUser
       THEN /\ response' = Reply("unlikeTweet", NoUser, "Unauthorized", <<>>)
            /\ UNCHANGED likes
       ELSE IF ~BagIn(<<ReqUser(s), t>>, likes)
       THEN /\ response' = Reply("unlikeTweet", ReqUser(s), "User has not liked this tweet", <<>>)
            /\ UNCHANGED likes
       ELSE /\ likes' = DeleteRow(likes, ReqUser(s), t)
            /\ response' = Reply("unlikeTweet", ReqUser(s), "", <<LikedTweet(likes', t, ReqUser(s))>>)
    /\ UNCHANGED <<users, tweets, follows, retweets, sessions, now, nextUserId, nextTweetId, requests, tweets_count>>

Retweet(s, t) ==
    /\ IF ReqUser(s) = NoUser
       THEN /\ response' = Reply("retweet", NoUser, "Unauthorized", <<>>)
            /\ UNCHANGED retweets
       ELSE IF ~TweetExists(t)
       THEN /\ response' = Reply("retweet", ReqUser(s), "Tweet not found", <<>>)
            /\ UNCHANGED retweets
       ELSE IF OwnTweet(ReqUser(s), t)
       THEN /\ response' = Reply("retweet", ReqUser(s), "User cannot retweet own tweet", <<>>)
            /\ UNCHANGED retweets
       ELSE IF UniqueViolation(retweets, ReqUser(s), t)
       THEN /\ response' = Reply("retweet", ReqUser(s), "User already retweeted this tweet", <<>>)
            /\ UNCHANGED retweets
       ELSE IF ~(FkUser(ReqUser(s)) /\ FkTweet(t))
       THEN /\ response' = Reply("retweet", ReqUser(s), "violates foreign key constraint", <<>>)
            /\ UNCHANGED retweets
       ELSE /\ retweets' = InsertRow(retweets, ReqUser(s), t)
            /\ response' = Reply("retweet", ReqUser(s), "", <<>>)
    /\ UNCHANGED <<users, tweets, follows, likes, sessions, now, nextUserId, nextTweetId, requests, tweets_count>>

\* mutant of RemoveRetweet: the resolver without its check of req.user
RemoveRetweetNoAuth(s, t) ==
    /\ retweets' = DeleteRow(retweets, ReqUser(s), t)
    /\ response' = Reply("removeRetweet", ReqUser(s), "", <<>>)
    /\ UNCHANGED <<users, tweets, follows, likes, sessions, now, nextUserId, nextTweetId, requests, tweets_count>>

RemoveRetweet(s, t) ==
    /\ IF ReqUser(s) = NoUser
       THEN /\ response' = Reply("removeRetweet", NoUser, "Unauthorized", <<>>)
            /\ UNCHANGED retweets
       ELSE /\ retweets' = DeleteRow(retweets, ReqUser(s), t)
            /\ response' = Reply("removeRetweet", ReqUser(s), "", <<>>)
    /\ UNCHANGED <<users, tweets, follows, likes, sessions, now, nextUserId, nextTweetId, requests, tweets_count>>

(* -------------------------------- follows ------------------------------ *)
\* mutant of SelfFollow: the validation left out
SelfFollowOff(u, v) == FALSE

\* "Cannot follow self": the validation of the application layer
SelfFollow(u, v) == u = v

FollowUser(s, v) ==
    /\ IF ReqUser(s) = NoUser
       THEN /\ response' = Reply("followUser", NoUser, "Unauthorized", <<>>)
            /\ UNCHANGED follows
       ELSE IF SelfFollow(ReqUser(s), v)
       THEN /\ response' = Reply("followUser", ReqUser(s), "Cannot follow self", <<>>)
            /\ UNCHANGED follows
       ELSE IF UniqueViolation(follows, ReqUser(s), v)
       THEN /\ response' = Reply("followUser", ReqUser(s), "duplicate key value violates unique constraint", <<>>)
            /\ UNCHANGED follows
       ELSE IF ~(FkUser(ReqUser(s)) /\ FkUser(v))
       THEN /\ response' = Reply("followUser", ReqUser(s), "violates foreign key constraint", <<>>)
            /\ UNCHANGED follows
       ELSE /\ follows' = InsertRow(follows, ReqUser(s), v)
            /\ response' = Reply("followUser", ReqUser(s), "", <<>>)
    /\ UNCHANGED <<users, tweets, likes, retweets, sessions, now, nextUserId, nextTweetId, requests, tweets_count>>

UnfollowUser(s, v) ==
    /\ IF ReqUser(s) = NoUser
       THEN /\ response' = Reply("unfollowUser", NoUser, "Unauthorized", <<>>)
            /\ UNCHANGED follows
       ELSE IF ~BagIn(<<ReqUser(s), v>>, follows)
       THEN /\ response' = Reply("unfollowUser", ReqUser(s), "User is not following", <<>>)
            /\ UNCHANGED follows
       ELSE /\ follows' = DeleteRow(follows, ReqUser(s), v)
            /\ response' = Reply("unfollowUser", ReqUser(s), "", <<>>)
    /\ UNCHANGED <<users, tweets, likes, retweets, sessions, now, nextUserId, nextTweetId, requests, tweets_count>>

(* -------------------------------- queries ------------------------------ *)
\* the l.id / r.id of a LEFT JOIN row that found no partner
NULL == <<0, 0, 0>>

\* the right-hand side of a LEFT JOIN: the matching rows, or one NULL row
LeftJoin(matching) == IF matching = {} THEN {NULL} ELSE matching

\* COUNT(DISTINCT x.id) over the ids a group holds in column x.id
CountDistinct(ids) == Cardinality(ids \ {NULL})

\* FROM tweets t JOIN users u ON t.user_id = u.id
\*   LEFT JOIN likes l ON t.id = l.tweet_id LEFT JOIN retweets r ON t.id = r.tweet_id
FeedJoin ==
    LET l_rows == Rows(likes)
        r_rows == Rows(retweets)
    IN UNION {{[t |-> t, u |-> u, l |-> l, r |-> r] :
                  u \in {x \in users : x.id = t.user_id},
                  l \in LeftJoin({x \in l_rows : x[2] = t.id}),
                  r \in LeftJoin({x \in r_rows : x[2] = t.id})} : t \in tweets}

\* mutant of FollowingIds: the two columns of follows swapped
FollowerIds(uid) == {f[1] : f \in {x \in Rows(follows) : x[2] = uid}}

\* SELECT following_id FROM follows WHERE follower_id = ?
FollowingIds(uid) == {f[2] : f \in {x \in Rows(follows) : x[1] = uid}}

\* WHERE t.user_id = ? OR t.user_id IN (SELECT following_id ...)
FeedWhere(uid) == {j \in FeedJoin : j.t.user_id = uid \/ j.t.user_id \in FollowingIds(uid)}

\* mutant of FeedGroups: COUNT(l.id) and COUNT(r.id) without DISTINCT, which
\* count the rows of the join
FeedGroupsNotDistinct(uid) ==
    LET selected == FeedWhere(uid)
    IN {LET group == {j \in selected : <<j.t.id, j.u.id>> = g}
            t == (CHOOSE j \in group : TRUE).t
        IN [id |-> t.id, user_id |-> t.user_id, content |-> t.content, created_at |-> t.created_at,
            likes_count |-> Cardinality({j \in group : j.l # NULL}),
            retweets_count |-> Cardinality({j \in group : j.r # NULL})] :
        g \in {<<j.t.id, j.u.id>> : j \in selected}}

\* GROUP BY t.id, u.id with the SELECT list
FeedGroups(uid) ==
    LET selected == FeedWhere(uid)
    IN {LET group == {j \in selected : <<j.t.id, j.u.id>> = g}
            t == (CHOOSE j \in group : TRUE).t
        IN [id |-> t.id, user_id |-> t.user_id, content |-> t.content, created_at |-> t.created_at,
            likes_count |-> CountDistinct({j.l : j \in group}),
            retweets_count |-> CountDistinct({j.r : j \in group})] :
        g \in {<<j.t.id, j.u.id>> : j \in selected}}

\* ORDER BY created_at DESC: every listing of the rows that respects it
\* (rows of equal created_at come in an order the database chooses)
\* mutant of Descending: ORDER BY created_at ASC
Ascending(seq) == \A i \in 1..Len(seq), j \in 1..Len(seq) : i < j => seq[i].created_at <= seq[j].created_at

Descending(seq) == \A i \in 1..Len(seq), j \in 1..Len(seq) : i < j => seq[i].created_at >= seq[j].created_at

OrderByCreatedAtDesc(rows) ==
    LET n == Cardinality(rows)
    IN {seq \in [1..n -> rows] :
           /\ \A i \in 1..n, j \in 1..n : i # j => seq[i] # seq[j]
           /\ Descending(seq)}

\* mutant of LimitOffset: the OFFSET left out of the query
LimitOnly(seq, l, o) == SubSeq(seq, 1, Min(l, Len(seq)))

\* LIMIT l OFFSET o
LimitOffset(seq, l, o) == SubSeq(seq, o + 1, Min(o + l, Len(seq)))

homeFeed(uid, l, o) == {LimitOffset(seq, l, o) : seq \in OrderByCreatedAtDesc(FeedGroups(uid))}

\* SELECT * FROM tweets WHERE user_id = ? ORDER BY created_at DESC, 20 per page
userTimeline(uid, o) == {LimitOffset(seq, DefaultLimit, o) : seq \in OrderByCreatedAtDesc(TweetsOf(uid))}

HomeFeed(s, l, o) ==
    /\ IF ReqUser(s) = NoUser
       THEN response' = Reply("homeFeed", NoUser, "Unauthorized", <<>>)
       ELSE \E rows \in homeFeed(ReqUser(s), l, o) :
                response' = Reply("homeFeed", ReqUser(s), "", rows)
    /\ UNCHANGED <<db, sessions, now, nextUserId, nextTweetId, requests, tweets_count>>

UserTimeline(v, o) ==
    /\ \E rows \in userTimeline(v, o) : response' = Reply("userTimeline", v, "", rows)
    /\ UNCHANGED <<db, sessions, now, nextUserId, nextTweetId, requests, tweets_count>>

\* mutant of ProfileJoin: f1 and f2 joined on each other's column
ProfileJoinSwapped(uid) ==
    LET f_rows == Rows(follows)
    IN {[u |-> u, t |-> t, f1 |-> f1, f2 |-> f2] :
           u \in {x \in users : x.id = uid},
           t \in LeftJoin({<<x.id>> : x \in TweetsOf(uid)}),
           f1 \in LeftJoin({x \in f_rows : x[1] = uid}),
           f2 \in LeftJoin({x \in f_rows : x[2] = uid})}

\* FROM users u LEFT JOIN tweets t ON u.id = t.user_id
\*   LEFT JOIN follows f1 ON u.id = f1.following_id
\*   LEFT JOIN follows f2 ON u.id = f2.follower_id  WHERE u.id = ?
\* (a tweets row stands by its primary key <<id>>)
ProfileJoin(uid) ==
    LET f_rows == Rows(follows)
    IN {[u |-> u, t |-> t, f1 |-> f1, f2 |-> f2] :
           u \in {x \in users : x.id = uid},
           t \in LeftJoin({<<x.id>> : x \in TweetsOf(uid)}),
           f1 \in LeftJoin({x \in f_rows : x[2] = uid}),
           f2 \in LeftJoin({x \in f_rows : x[1] = uid})}

\* GROUP BY u.id with the three COUNT(DISTINCT ...) of the SELECT list
ProfileStats(uid) ==
    LET joined == ProfileJoin(uid)
    IN {LET group == {j \in joined : j.u.id = g}
        IN [id |-> g,
            tweets_count |-> CountDistinct({j.t : j \in group}),
            followers_count |-> CountDistinct({j.f1 : j \in group}),
            following_count |-> CountDistinct({j.f2 : j \in group})] :
        g \in {j.u.id : j \in joined}}

\* the user(id) query: the profile with its statistics, no row for an id
\* that no user has
UserProfile(v) ==
    /\ LET stats == ProfileStats(v)
       IN response' = Reply("user", v, "", IF stats = {} THEN <<>> ELSE <<CHOOSE r \in stats : TRUE>>)
    /\ UNCHANGED <<db, sessions, now, nextUserId, nextTweetId, requests, tweets_count>>

(* ------------------------------ userLoader ----------------------------- *)
\* what Array.prototype.find gives when no element matches
undefined == [id |-> NoUser]

\* the batches of keys DataLoader hands to its batch function
Batches == UNION {[1..n -> UserIds] : n \in 0..MaxBatch}

\* the orders a SELECT without ORDER BY may return the rows of S in
Orderings(S) ==
    {f \in [1..Cardinality(S) -> S] : \A i, j \in 1..Cardinality(S) : f[i] = f[j] => i = j}

\* db('users').whereIn('id', userIds)
whereIn(userIds) == Orderings({r \in users : \E i \in DOMAIN userIds : r.id = userIds[i]})

\* rows.find(u => u.id === id): the first row with that id
find(rows, id) ==
    IF \E i \in DOMAIN rows : rows[i].id = id
    THEN rows[CHOOSE i \in DOMAIN rows : rows[i].id = id /\ \A j \in 1..(i - 1) : rows[j].id # id]
    ELSE undefined

\* mutant of userLoader: the rows handed back as the database returned them
userLoaderRows(userIds, rows) == rows

\* userIds.map(id => users.find(u => u.id === id))
userLoader(userIds, rows) == [i \in DOMAIN userIds |-> find(rows, userIds[i])]

\* one call of the batch function
UserLoader(userIds) ==
    /\ \E rows \in whereIn(userIds) :
          response' = Reply("userLoader", NoUser, "", userLoader(userIds, rows))
    /\ UNCHANGED <<db, sessions, now, nextUserId, nextTweetId, requests, tweets_count>>

(* -------------------------- createUserAvatarUrl ------------------------ *)
\* A string is the sequence of its characters.  The addresses are made of a
\* letter, two digits of the escape of "@", the two digits of the escape of
\* "%", and the two characters that are escaped.
Characters == {"a", "4", "0", "2", "5", "@", "%"}
EmailTexts == UNION {[1..n -> Characters] : n \in 0..MaxEmailLength}

\* the characters encodeURIComponent leaves as they are:
\* A-Z a-z 0-9 - _ . ! ~ * ' ( )
Unreserved == {"a", "4", "0", "2", "5"}

\* mutant of encodeCharacter: the percent sign left as it is
encodeCharacterKeepPercent(c) ==
    IF c \in Unreserved \cup {"%"} THEN <<c>> ELSE <<"%", "4", "0">>

\* every other character becomes "%" and the two hexadecimal digits of its
\* byte: "@" is byte 40, "%" is byte 25
encodeCharacter(c) ==
    IF c \in Unreserved THEN <<c>>
    ELSE IF c = "@" THEN <<"%", "4", "0">>
    ELSE <<"%", "2", "5">>

RECURSIVE encodeURIComponent(_)
encodeURIComponent(str) ==
    IF str = <<>> THEN <<>>
    ELSE encodeCharacter(Head(str)) \o encodeURIComponent(Tail(str))

\* `https://api.dicebear.com/7.x/avataaars/svg?seed=${encodeURIComponent(email)}&scale=80`
createUserAvatarUrl(email) ==
    <<"https://api.dicebear.com/7.x/avataaars/svg?seed=">> \o encodeURIComponent(email) \o <<"&scale=80">>

\* one call of the function
CreateUserAvatarUrl(email) ==
    /\ response' = Reply("createUserAvatarUrl", NoUser, "", <<createUserAvatarUrl(email)>>)
    /\ UNCHANGED <<db, sessions, now, nextUserId, nextTweetId, requests, tweets_count>>

(* ----------------------------- specification --------------------------- *)
\* The bounds of the model: a step is taken only when the ids, the clock and
\* the junction tables stay within them.
JunctionRows == BagCardinality(follows) + BagCardinality(likes) + BagCardinality(retweets)

Bounded(rows) ==
    /\ nextUserId' <= MaxUsers + 1
    /\ nextTweetId' <= MaxTweets + 1
    /\ now' <= MaxTime
    /\ JunctionRows' <= rows

\* the same with a bound of its own on the tweets
BoundedTweets(tweetRows, rows) ==
    /\ nextUserId' <= MaxUsers + 1
    /\ nextTweetId' <= tweetRows + 1
    /\ now' <= MaxTime
    /\ JunctionRows' <= rows

\* every request against the whole schema
Next ==
    \/ \E s \in Sessions, e \in SignupEmails(nextUserId), p \in Passwords, n \in Names : Signup(s, e, p, n) /\ Bounded(MaxRows)
    \/ \E s \in Sessions, e \in Emails, p \in Passwords : Login(s, e, p) /\ Bounded(MaxRows)
    \/ \E s \in Sessions : Logout(s) /\ Bounded(MaxRows)
    \/ \E u \in UserIds : DeleteUser(u) /\ Bounded(MaxRows)
    \/ \E s \in Sessions, c \in Contents : CreateTweet(s, c) /\ Bounded(MaxRows)
    \/ \E s \in Sessions, t \in TweetIds : DeleteTweet(s, t) /\ Bounded(MaxRows)
    \/ \E s \in Sessions, t \in TweetIds : LikeTweet(s, t) /\ Bounded(MaxRows)
    \/ \E s \in Sessions, t \in TweetIds : UnlikeTweet(s, t) /\ Bounded(MaxRows)
    \/ \E s \in Sessions, t \in TweetIds : Retweet(s, t) /\ Bounded(MaxRows)
    \/ \E s \in Sessions, t \in TweetIds : RemoveRetweet(s, t) /\ Bounded(MaxRows)
    \/ \E s \in Sessions, v \in UserIds : FollowUser(s, v) /\ Bounded(MaxRows)
    \/ \E s \in Sessions, v \in UserIds : UnfollowUser(s, v) /\ Bounded(MaxRows)
    \/ \E s \in Sessions : HomeFeed(s, DefaultLimit, DefaultOffset) /\ Bounded(MaxRows)
    \/ \E v \in UserIds : UserTimeline(v, DefaultOffset) /\ Bounded(MaxRows)

Spec == Init /\ [][Next]_vars

\* accounts, tweets and likes
NextLikes ==
    \/ \E s \in Sessions, e \in SignupEmails(nextUserId), p \in Passwords, n \in Names : Signup(s, e, p, n) /\ Bounded(MaxLikes)
    \/ \E s \in Sessions, e \in Emails, p \in Passwords : Login(s, e, p) /\ Bounded(MaxLikes)
    \/ \E s \in Sessions : Logout(s) /\ Bounded(MaxLikes)
    \/ \E u \in UserIds : DeleteUser(u) /\ Bounded(MaxLikes)
    \/ \E s \in Sessions, c \in Contents : CreateTweet(s, c) /\ Bounded(MaxLikes)
    \/ \E s \in Sessions, t \in TweetIds : DeleteTweet(s, t) /\ Bounded(MaxLikes)
    \/ \E s \in Sessions, t \in TweetIds : LikeTweet(s, t) /\ Bounded(MaxLikes)
    \/ \E s \in Sessions, t \in TweetIds : UnlikeTweet(s, t) /\ Bounded(MaxLikes)

SpecLikes == Init /\ [][NextLikes]_vars

\* accounts and follows
NextFollows ==
    \/ \E s \in Sessions, e \in SignupEmails(nextUserId), p \in Passwords, n \in Names : Signup(s, e, p, n) /\ Bounded(MaxFollows)
    \/ \E s \in Sessions, e \in Emails, p \in Passwords : Login(s, e, p) /\ Bounded(MaxFollows)
    \/ \E s \in Sessions : Logout(s) /\ Bounded(MaxFollows)
    \/ \E u \in UserIds : DeleteUser(u) /\ Bounded(MaxFollows)
    \/ \E s \in Sessions, v \in UserIds : FollowUser(s, v) /\ Bounded(MaxFollows)
    \/ \E s \in Sessions, v \in UserIds : UnfollowUser(s, v) /\ Bounded(MaxFollows)

SpecFollows == Init /\ [][NextFollows]_vars

\* the timelines over accounts, tweets, follows and retweets
NextFeed ==
    \/ \E s \in Sessions, e \in SignupEmails(nextUserId), p \in Passwords, n \in Names : Signup(s, e, p, n) /\ Bounded(MaxFeedRows)
    \/ \E s \in Sessions, e \in Emails, p \in Passwords : Login(s, e, p) /\ Bounded(MaxFeedRows)
    \/ \E s \in Sessions, c \in Contents : CreateTweet(s, c) /\ Bounded(MaxFeedRows)
    \/ \E s \in Sessions, v \in UserIds : FollowUser(s, v) /\ Bounded(MaxFeedRows)
    \/ \E s \in Sessions, v \in UserIds : UnfollowUser(s, v) /\ Bounded(MaxFeedRows)
    \/ \E s \in Sessions, t \in TweetIds : Retweet(s, t) /\ Bounded(MaxFeedRows)
    \/ \E s \in Sessions : HomeFeed(s, DefaultLimit, DefaultOffset) /\ Bounded(MaxFeedRows)
    \/ \E v \in UserIds : UserTimeline(v, DefaultOffset) /\ Bounded(MaxFeedRows)

SpecFeed == Init /\ [][NextFeed]_vars

\* accounts and tweets, with every text of TweetContents
NextTweets ==
    \/ \E s \in Sessions, e \in SignupEmails(nextUserId), p \in Passwords, n \in Names : Signup(s, e, p, n) /\ Bounded(MaxRows)
    \/ \E s \in Sessions, e \in Emails, p \in Passwords : Login(s, e, p) /\ Bounded(MaxRows)
    \/ \E s \in Sessions : Logout(s) /\ Bounded(MaxRows)
    \/ \E u \in UserIds : DeleteUser(u) /\ Bounded(MaxRows)
    \/ \E s \in Sessions, c \in TweetContents : CreateTweet(s, c) /\ Bounded(MaxRows)
    \/ \E s \in Sessions, t \in TweetIds : DeleteTweet(s, t) /\ Bounded(MaxRows)

SpecTweets == Init /\ [][NextTweets]_vars

\* accounts and sessions: two session cookies, accounts with different
\* passwords, and a request that needs req.user
NextAuth ==
    \/ \E s \in AuthSessions, e \in SignupEmails(nextUserId), p \in SignupPasswords, n \in Names : Signup(s, e, p, n) /\ Bounded(MaxRows)
    \/ \E s \in AuthSessions, e \in Emails, p \in LoginPasswords : Login(s, e, p) /\ Bounded(MaxRows)
    \/ \E s \in AuthSessions : Logout(s) /\ Bounded(MaxRows)
    \/ \E u \in UserIds : DeleteUser(u) /\ Bounded(MaxRows)
    \/ \E s \in AuthSessions : HomeFeed(s, DefaultLimit, DefaultOffset) /\ Bounded(MaxRows)

SpecAuth == Init /\ [][NextAuth]_vars

\* tweets with their likes and retweets: the counts of the home feed, and
\* deleteTweet
NextCounts ==
    \/ \E s \in Sessions, e \in SignupEmails(nextUserId), p \in Passwords, n \in Names : Signup(s, e, p, n) /\ Bounded(MaxCountRows)
    \/ \E s \in Sessions, e \in Emails, p \in Passwords : Login(s, e, p) /\ Bounded(MaxCountRows)
    \/ \E s \in Sessions, c \in Contents : CreateTweet(s, c) /\ Bounded(MaxCountRows)
    \/ \E s \in Sessions, t \in TweetIds : DeleteTweet(s, t) /\ Bounded(MaxCountRows)
    \/ \E s \in Sessions, t \in TweetIds : LikeTweet(s, t) /\ Bounded(MaxCountRows)
    \/ \E s \in Sessions, t \in TweetIds : Retweet(s, t) /\ Bounded(MaxCountRows)
    \/ \E s \in Sessions : HomeFeed(s, DefaultLimit, DefaultOffset) /\ Bounded(MaxCountRows)

SpecCounts == Init /\ [][NextCounts]_vars

\* the pages of the home feed: accounts, tweets, follows and homeFeed with
\* every limit of Limits and offset of Offsets
NextPages ==
    \/ \E s \in Sessions, e \in SignupEmails(nextUserId), p \in Passwords, n \in Names : Signup(s, e, p, n) /\ BoundedTweets(MaxPageTweets, MaxFeedRows)
    \/ \E s \in Sessions, e \in Emails, p \in Passwords : Login(s, e, p) /\ BoundedTweets(MaxPageTweets, MaxFeedRows)
    \/ \E s \in Sessions, c \in Contents : CreateTweet(s, c) /\ BoundedTweets(MaxPageTweets, MaxFeedRows)
    \/ \E s \in Sessions, v \in UserIds : FollowUser(s, v) /\ BoundedTweets(MaxPageTweets, MaxFeedRows)
    \/ \E s \in Sessions, l \in Limits, o \in Offsets : HomeFeed(s, l, o) /\ BoundedTweets(MaxPageTweets, MaxFeedRows)

SpecPages == Init /\ [][NextPages]_vars

\* the profile statistics: accounts, tweets, follows and the user query
NextProfile ==
    \/ \E s \in Sessions, e \in SignupEmails(nextUserId), p \in Passwords, n \in Names : Signup(s, e, p, n) /\ Bounded(MaxProfileRows)
    \/ \E s \in Sessions, e \in Emails, p \in Passwords : Login(s, e, p) /\ Bounded(MaxProfileRows)
    \/ \E u \in UserIds : DeleteUser(u) /\ Bounded(MaxProfileRows)
    \/ \E s \in Sessions, c \in Contents : CreateTweet(s, c) /\ Bounded(MaxProfileRows)
    \/ \E s \in Sessions, v \in UserIds : FollowUser(s, v) /\ Bounded(MaxProfileRows)
    \/ \E s \in Sessions, v \in UserIds : UnfollowUser(s, v) /\ Bounded(MaxProfileRows)
    \/ \E v \in UserIds : UserProfile(v) /\ Bounded(MaxProfileRows)

SpecProfile == Init /\ [][NextProfile]_vars

\* the tweet transaction, several at once, with the accounts they write for
NextTransaction ==
    \/ \E s \in Sessions, e \in SignupEmails(nextUserId), p \in Passwords, n \in Names : Signup(s, e, p, n) /\ Bounded(MaxRows)
    \/ \E k \in Requests, u \in UserIds, c \in {x \in Contents : validate(x) = ""} : TransactionBegin(k, u, c) /\ Bounded(MaxRows)
    \/ \E k \in Requests : TransactionInsert(k) /\ Bounded(MaxRows)
    \/ \E k \in Requests : TransactionIncrement(k) /\ Bounded(MaxRows)
    \/ \E k \in Requests : TransactionCommit(k) /\ Bounded(MaxRows)
    \/ \E k \in Requests : TransactionRollback(k) /\ Bounded(MaxRows)

SpecTransaction == Init /\ [][NextTransaction]_vars

\* the loader over accounts that come and go
NextLoader ==
    \/ \E s \in Sessions, e \in SignupEmails(nextUserId) : Signup(s, e, "secret", "Ann") /\ Bounded(MaxRows)
    \/ \E u \in UserIds : DeleteUser(u) /\ Bounded(MaxRows)
    \/ \E userIds \in Batches : UserLoader(userIds) /\ Bounded(MaxRows)

SpecLoader == Init /\ [][NextLoader]_vars

\* the avatar URL of every address
NextAvatar == \E email \in EmailTexts : CreateUserAvatarUrl(email)

SpecAvatar == Init /\ [][NextAvatar]_vars

\* like requests of several clients in flight at once
NextRace ==
    \/ \E s \in AuthSessions, e \in SignupEmails(nextUserId) : Signup(s, e, "secret", "Ann") /\ BoundedTweets(MaxRaceTweets, MaxLikes)
    \/ \E s \in AuthSessions, c \in {x \in Contents : validate(x) = ""} : CreateTweet(s, c) /\ BoundedTweets(MaxRaceTweets, MaxLikes)
    \/ \E k \in Requests, s \in AuthSessions, t \in TweetIds : LikeBegin(k, s, t) /\ BoundedTweets(MaxRaceTweets, MaxLikes)
    \/ \E k \in Requests : LikeValidate(k) /\ BoundedTweets(MaxRaceTweets, MaxLikes)
    \/ \E k \in Requests : LikeInsert(k) /\ BoundedTweets(MaxRaceTweets, MaxLikes)

SpecRace == Init /\ [][NextRace]_vars


(* ------------------------------- claims -------------------------------- *)

\* C1: in every state reached by signups, logins, user deletions, createTweet,
\* deleteTweet, likeTweet and unlikeTweet, the likes table holds at most one
\* row for any (user_id, tweet_id) pair.
C1_LikesUnique ==
    \A u \in UserIds, t \in TweetIds :
        Cardinality({r \in Rows(likes) : r[1] = u /\ r[2] = t}) <= 1

\* two users have liked the same tweet
C1_Witness ==
    /\ response.op = "likeTweet" /\ response.error = ""
    /\ \E t \in TweetIds : LikesCount(t) = 2

\* C2: a likeTweet by a user who already likes the tweet answers with an error,
\* and the likes table and the tweet's likes_count are what they were.
C2_DuplicateLikeRejected ==
    [][\A s \in Sessions, t \in TweetIds :
          (LikeTweet(s, t) /\ ReqUser(s) # NoUser /\ BagIn(<<ReqUser(s), t>>, likes))
              => /\ response'.error # ""
                 /\ likes' = likes
                 /\ LikesCount(t)' = LikesCount(t)]_vars

\* a second like of the same tweet by the same user was answered with the
\* duplicate error while the first like is still in the table
C2_Witness ==
    /\ response.op = "likeTweet"
    /\ response.error = "User already liked this tweet"
    /\ \E t \in TweetIds : BagIn(<<response.user, t>>, likes)

\* C3: followUser(a, b) while a already follows b fails and leaves the follows
\* table unchanged, and no state holds two follows rows with the same
\* (follower_id, following_id).
C3_DuplicateFollowRejected ==
    [][/\ \A s \in Sessions, v \in UserIds :
              (FollowUser(s, v) /\ ReqUser(s) # NoUser /\ BagIn(<<ReqUser(s), v>>, follows))
                  => (response'.error # "" /\ follows' = follows)
       /\ \A a \in UserIds, b \in UserIds :
              Cardinality({r \in Rows(follows') : r[1] = a /\ r[2] = b}) <= 1]_vars

\* a follow of a user the caller already follows was refused
C3_Witness ==
    /\ response.op = "followUser"
    /\ response.error = "duplicate key value violates unique constraint"
    /\ \E v \in UserIds : BagIn(<<response.user, v>>, follows)

\* C4: a signup with the e-mail of an existing user fails with an error and
\* adds no user row, and no two users share an e-mail.
C4_DuplicateEmailRejected ==
    [][/\ \A s \in Sessions, e \in Emails, p \in Passwords, n \in Names :
              (Signup(s, e, p, n) /\ \E r \in users : r.email = e)
                  => (response'.error # "" /\ users' = users)
       /\ \A r1 \in users', r2 \in users' : r1.email = r2.email => r1 = r2]_vars

\* a signup was refused for its duplicate e-mail while two accounts exist
C4_Witness ==
    /\ response.op = "signup"
    /\ response.error = "duplicate key value violates unique constraint"
    /\ Cardinality(users) = 2

\* C5: referential integrity: every tweet's user_id is a user, every like and
\* retweet refers to a user and to a tweet, both ends of every follow are users.
C5_ReferentialIntegrity ==
    /\ \A t \in tweets : \E u \in users : u.id = t.user_id
    /\ \A r \in Rows(likes) \cup Rows(retweets) :
          /\ \E u \in users : u.id = r[1]
          /\ \E t \in tweets : t.id = r[2]
    /\ \A r \in Rows(follows) :
          /\ \E u \in users : u.id = r[1]
          /\ \E u \in users : u.id = r[2]

\* a user was deleted and tweets and junction rows of other users remain
C5_Witness ==
    /\ response.op = "deleteUser"
    /\ tweets # {}
    /\ JunctionRows = 2

\* C6: once a tweet is deleted, no likes row and no retweets row refers to it.
C6_TweetDeleteCascades ==
    \A t \in TweetIds :
        (t < nextTweetId /\ ~\E r \in tweets : r.id = t)
            => \A r \in Rows(likes) \cup Rows(retweets) : r[2] # t

\* a tweet was deleted by its owner
C6_Witness ==
    /\ response.op = "deleteTweet" /\ response.error = ""
    /\ \E t \in TweetIds : t < nextTweetId /\ ~\E r \in tweets : r.id = t
    /\ Cardinality(users) >= 2

\* C7: once a user is deleted, none of the user's tweets remains, no follows row
\* has the user at either end, and no likes or retweets row has the user as user_id.
C7_UserDeleteCascades ==
    \A u \in UserIds :
        (u < nextUserId /\ ~\E r \in users : r.id = u)
            => /\ \A t \in tweets : t.user_id # u
               /\ \A r \in Rows(follows) : r[1] # u /\ r[2] # u
               /\ \A r \in Rows(likes) \cup Rows(retweets) : r[1] # u

\* a user was deleted while other users, with rows of their own, remain
C7_Witness ==
    /\ response.op = "deleteUser"
    /\ \E u \in UserIds : u < nextUserId /\ ~\E r \in users : r.id = u
    /\ users # {}
    /\ JunctionRows >= 1

\* the ids of the tweets a query returned
ReturnedIds == {response.rows[i].id : i \in 1..Len(response.rows)}

C9_NewestFirst ==
    response.op \in {"homeFeed", "userTimeline"}
        => \A i \in 1..Len(response.rows), j \in 1..Len(response.rows) :
               i < j => response.rows[i].created_at >= response.rows[j].created_at

\* a home feed of two tweets created at different times
C9_Witness ==
    /\ response.op = "homeFeed"
    /\ Len(response.rows) = 2
    /\ response.rows[1].created_at # response.rows[2].created_at

\* C10: a tweet that a user followed by u has retweeted or liked is in u's home
\* timeline, also when its author is neither u nor followed by u.
C10_FeedShowsRetweetsOfFollowed ==
    (response.op = "homeFeed" /\ response.error = "")
        => \A t \in tweets :
               (\E v \in UserIds :
                    /\ BagIn(<<response.user, v>>, follows)
                    /\ BagIn(<<v, t.id>>, retweets) \/ BagIn(<<v, t.id>>, likes))
                   => t.id \in ReturnedIds

ProtectedRequest(s) ==
    \/ \E t \in TweetIds : \/ DeleteTweet(s, t)
                           \/ LikeTweet(s, t) \/ UnlikeTweet(s, t)
                           \/ Retweet(s, t) \/ RemoveRetweet(s, t)
    \/ \E v \in UserIds : FollowUser(s, v) \/ UnfollowUser(s, v)
    \/ HomeFeed(s, DefaultLimit, DefaultOffset)

C13_LoginChecksCredentials ==
    /\ [][\A s \in AuthSessions, e \in SignupEmails(nextUserId), p \in SignupPasswords, n \in Names :
            Signup(s, e, p, n) /\ response'.error = "" =>
                \E r \in users' \ users : r.email = e /\ r.password_hash = hash(p)]_vars
    /\ [][\A s \in AuthSessions, e \in Emails, p \in LoginPasswords :
            Login(s, e, p) =>
                IF \E r \in users : r.email = e /\ r.password_hash = hash(p)
                THEN /\ response'.error = ""
                     /\ \E r \in users : /\ r.email = e /\ r.password_hash = hash(p)
                                         /\ sessions' = [sessions EXCEPT ![s] = r.id]
                ELSE /\ response'.error # ""
                     /\ sessions' = sessions]_vars

\* a login was refused while two accounts with different passwords exist and
\* no session is logged in
C13_Witness ==
    /\ response.op = "login" /\ response.error # ""
    /\ \E a \in users, b \in users : a.password_hash # b.password_hash
    /\ \A s \in AuthSessions : sessions[s] = NoUser

C16_LikeAnyTweetSucceeds ==
    [][\A s \in Sessions, t \in TweetIds :
          /\ LikeTweet(s, t)
          /\ UserExists(ReqUser(s)) /\ TweetExists(t)
          /\ ~BagIn(<<ReqUser(s), t>>, likes)
          => /\ response'.error = ""
             /\ response'.rows = <<[id |-> t, likes_count |-> LikesCount(t) + 1,
                                    is_liked_by_me |-> TRUE]>>]_vars

\* C17: followUser by a logged-in user u naming u itself is answered with an
\* error and leaves the follows table as it was, and in every reachable state
\* no follows row has follower_id equal to following_id.
C17_NoSelfFollow ==
    /\ [](\A r \in Rows(follows) : r[1] # r[2])
    /\ [][\A s \in Sessions :
            ReqUser(s) # NoUser /\ FollowUser(s, ReqUser(s))
            => response'.error # "" /\ follows' = follows]_vars

\* a follow of oneself was refused by a user who follows and is followed
C17_Witness ==
    /\ response.op = "followUser" /\ response.error = "Cannot follow self"
    /\ \E r \in Rows(follows) : r[1] = response.user
    /\ \E r \in Rows(follows) : r[2] = response.user

\* C18: every tweet that homeFeed returns carries as likes_count the number
\* of likes rows with its id as tweet_id and as retweets_count the number of
\* retweets rows with its id as tweet_id.
C18_FeedCountsExact ==
    response.op = "homeFeed" /\ response.error = "" =>
        \A i \in 1..Len(response.rows) :
            /\ response.rows[i].likes_count = LikesCount(response.rows[i].id)
            /\ response.rows[i].retweets_count = RetweetsCount(response.rows[i].id)

\* homeFeed has returned a tweet with two likes and two retweets together
\* with a tweet that has neither
C18_Witness ==
    /\ response.op = "homeFeed" /\ response.error = ""
    /\ \E i \in 1..Len(response.rows) :
           response.rows[i].likes_count = 2 /\ response.rows[i].retweets_count = 2
    /\ \E i \in 1..Len(response.rows) :
           response.rows[i].likes_count = 0 /\ response.rows[i].retweets_count = 0

\* C19: a successful likeTweet adds the caller's row for the tweet to the
\* likes table and raises the tweet's likes_count by exactly 1; unlikeTweet by
\* the same user on the same tweet as the request that follows succeeds, takes
\* exactly that row away again, so that the likes table is what it was before
\* the like, and answers with the likes_count from before the like.
C19_LikeUnlikeRoundTrip ==
    /\ [][\A s \in Sessions, t \in TweetIds :
            LikeTweet(s, t) /\ response'.error = "" =>
                /\ ~BagIn(<<ReqUser(s), t>>, likes)
                /\ likes' = likes (+) SetToBag({<<ReqUser(s), t>>})
                /\ LikesCount(t)' = LikesCount(t) + 1
                /\ response'.rows[1].likes_count = LikesCount(t) + 1]_vars
    /\ [][\A s \in Sessions, t \in TweetIds :
            /\ response.op = "likeTweet" /\ response.error = ""
            /\ response.rows[1].id = t /\ response.user = ReqUser(s)
            /\ UnlikeTweet(s, t)
            => /\ response'.error = ""
               /\ ~BagIn(<<ReqUser(s), t>>, likes')
               /\ likes = likes' (+) SetToBag({<<ReqUser(s), t>>})
               /\ LikesCount(t)' = LikesCount(t) - 1
               /\ response'.rows[1].likes_count = response.rows[1].likes_count - 1
               /\ response'.rows[1].is_liked_by_me = FALSE]_vars

\* an unlike has succeeded and has left one row in the likes table: the like
\* of another user on the same tweet, or the caller's like of another tweet
C19_Witness ==
    /\ response.op = "unlikeTweet" /\ response.error = ""
    /\ response.rows[1].is_liked_by_me = FALSE
    /\ BagCardinality(likes) = 1

\* C20: deleteTweet by a logged-in user on a tweet of another user is
\* answered with an error, and the tweet, the likes table and the retweets
\* table are left as they were.
C20_OnlyOwnerDeletes ==
    [][\A s \in Sessions, t \in TweetIds :
          /\ DeleteTweet(s, t)
          /\ ReqUser(s) # NoUser
          /\ \E w \in tweets : w.id = t /\ w.user_id # ReqUser(s)
          => /\ response'.error # ""
             /\ tweets' = tweets /\ likes' = likes /\ retweets' = retweets]_vars

\* a delete was refused to a user who is not the author, on a tweet that has
\* likes and retweets
C20_Witness ==
    /\ response.op = "deleteTweet" /\ response.error = "Only tweet owner can delete"
    /\ \E w \in tweets :
           /\ w.user_id # response.user
           /\ LikesCount(w.id) > 0 /\ RetweetsCount(w.id) > 0
           /\ \A x \in tweets : x.user_id # response.user

\* C21: when followUser by user a naming user b succeeds and b does not
\* follow a, a's following count and b's followers count each grow by 1, b's
\* following count and a's followers count stay as they were, a is following
\* b and b is not following a, and the tweets of b's home feed are the same as
\* before, none of them a tweet of a.
C21_FollowIsDirected ==
    [][\A s \in Sessions, b \in UserIds :
          /\ FollowUser(s, b) /\ response'.error = ""
          /\ ~IsFollowing(b, ReqUser(s))
          => /\ FollowingCount(ReqUser(s))' = FollowingCount(ReqUser(s)) + 1
             /\ FollowersCount(b)' = FollowersCount(b) + 1
             /\ FollowingCount(b)' = FollowingCount(b)
             /\ FollowersCount(ReqUser(s))' = FollowersCount(ReqUser(s))
             /\ IsFollowing(ReqUser(s), b)' /\ ~IsFollowing(b, ReqUser(s))'
             /\ FeedGroups(b)' = FeedGroups(b)
             /\ \A r \in FeedGroups(b)' : r.user_id # ReqUser(s)]_vars

\* a follow has succeeded in one direction only, by a user who has a tweet,
\* towards a user who has a tweet
C21_Witness ==
    /\ response.op = "followUser" /\ response.error = ""
    /\ \E b \in UserIds :
           /\ IsFollowing(response.user, b) /\ ~IsFollowing(b, response.user)
           /\ TweetsOf(response.user) # {} /\ TweetsOf(b) # {}

\* page has min(l, n - o) tweets of a feed of n tweets (none when o >= n), all
\* different, newest first, and the i-th of them can stand at position o + i
\* of the feed in order of recency: at most o + i - 1 tweets of the feed are
\* newer than it and at least o + i are as new or newer
PageIsSlice(page, l, o, feed) ==
    LET n == Cardinality(feed)
    IN /\ Len(page) = (IF o >= n THEN 0 ELSE Min(l, n - o))
       /\ \A i \in 1..Len(page) :
              /\ page[i] \in feed
              /\ \A j \in 1..Len(page) : i < j =>
                     page[i] # page[j] /\ page[i].created_at >= page[j].created_at
              /\ Cardinality({r \in feed : r.created_at > page[i].created_at}) <= o + i - 1
              /\ Cardinality({r \in feed : r.created_at >= page[i].created_at}) >= o + i

\* C22: for a logged-in user, every answer that homeFeed(limit, offset) can
\* give is the slice of the user's feed in order of recency that starts at
\* position offset and holds at most limit tweets, fewer than limit only when
\* the feed has fewer than offset + limit tweets; and what a homeFeed request
\* has answered is such an answer.
C22_PageIsSlice ==
    /\ \A s \in Sessions :
          ReqUser(s) # NoUser =>
              \A l \in Limits, o \in Offsets :
                  \A page \in homeFeed(ReqUser(s), l, o) :
                      PageIsSlice(page, l, o, FeedGroups(ReqUser(s)))
    /\ response.op = "homeFeed" /\ response.error = "" =>
          \E l \in Limits, o \in Offsets :
              PageIsSlice(response.rows, l, o, FeedGroups(response.user))

\* homeFeed has returned one tweet, the oldest, of a feed of three tweets
\* that were not all created at the same time
C22_Witness ==
    /\ response.op = "homeFeed" /\ response.error = ""
    /\ Cardinality(FeedGroups(response.user)) = 3
    /\ Len(response.rows) = 1
    /\ \A r \in FeedGroups(response.user) : r.created_at >= response.rows[1].created_at
    /\ \E r \in FeedGroups(response.user) : r.created_at > response.rows[1].created_at

\* C23: the profile that the user query returns for a user u carries as
\* tweets_count the number of tweets rows with user_id = u, as
\* followers_count the number of follows rows with following_id = u and as
\* following_count the number of follows rows with follower_id = u; for an id
\* that no user has it returns no profile.
C23_ProfileStatsExact ==
    response.op = "user" =>
        IF UserExists(response.user)
        THEN /\ Len(response.rows) = 1
             /\ response.rows[1].id = response.user
             /\ response.rows[1].tweets_count = Cardinality(TweetsOf(response.user))
             /\ response.rows[1].followers_count =
                    Cardinality({r \in Rows(follows) : r[2] = response.user})
             /\ response.rows[1].following_count =
                    Cardinality({r \in Rows(follows) : r[1] = response.user})
        ELSE response.rows = <<>>

\* a profile was returned with two tweets, two followers and one followed
\* user, while another user has no tweet
C23_Witness ==
    /\ response.op = "user" /\ response.rows # <<>>
    /\ response.rows[1].tweets_count = 2
    /\ response.rows[1].followers_count = 2
    /\ response.rows[1].following_count = 1
    /\ \E u \in users : TweetsOf(u.id) = {}

LikeRequest(k, u, t) ==
    /\ requests[k].op = "likeTweet" /\ requests[k].user = u /\ requests[k].tweet = t

\* C25: likes of one tweet by different users do not interfere.  Whatever
\* the requests of the other clients are doing, a like of an existing tweet of
\* another user that its caller has not liked passes validation, its insert
\* adds exactly the caller's row and likes_count rises by one; and when two
\* requests of different users for the same tweet have both been answered
\* without error, the likes table holds one row of each.
C25_ConcurrentLikesIndependent ==
    /\ [](\A j, k \in Requests :
            /\ j # k /\ requests[j].user # requests[k].user
            /\ LikeRequest(j, requests[j].user, requests[k].tweet)
            /\ requests[j].pc = "done" /\ requests[j].error = ""
            /\ requests[k].op = "likeTweet"
            /\ requests[k].pc = "done" /\ requests[k].error = ""
            => /\ CopiesIn(<<requests[j].user, requests[j].tweet>>, likes) = 1
               /\ CopiesIn(<<requests[k].user, requests[k].tweet>>, likes) = 1
               /\ LikesCount(requests[k].tweet) >= 2)
    /\ [][\A k \in Requests :
            /\ (/\ LikeValidate(k)
                /\ TweetExists(requests[k].tweet)
                /\ ~OwnTweet(requests[k].user, requests[k].tweet)
                /\ ~BagIn(<<requests[k].user, requests[k].tweet>>, likes)
                => requests'[k].pc = "insert")
            /\ (/\ LikeInsert(k)
                /\ ~BagIn(<<requests[k].user, requests[k].tweet>>, likes)
                => /\ likes' = likes (+) SetToBag({<<requests[k].user, requests[k].tweet>>})
                   /\ requests'[k].pc = "done" /\ requests'[k].error = ""
                   /\ response'.error = ""
                   /\ response'.rows[1].likes_count = LikesCount(requests[k].tweet) + 1)]_vars

\* two requests of different users for one tweet were in flight together and
\* both have succeeded: two rows, likes_count 2
C25_Witness ==
    /\ \E j, k \in Requests :
          /\ j # k /\ requests[j].user # requests[k].user
          /\ LikeRequest(j, requests[j].user, requests[k].tweet)
          /\ LikeRequest(k, requests[k].user, requests[k].tweet)
          /\ requests[j].pc = "done" /\ requests[j].error = ""
          /\ requests[k].pc = "done" /\ requests[k].error = ""
          /\ LikesCount(requests[k].tweet) = 2
    /\ response.op = "likeTweet" /\ response.error = ""
    /\ response.rows[1].likes_count = 2

\* C28: likes of one tweet by one user, in flight together, leave one row.
\* The likes table never holds two rows of one (user, tweet) pair; of two
\* answered requests of one user for one tweet at most one has succeeded, and
\* where both were refused as duplicates or one succeeded the pair has
\* exactly one row; the insert of the request that comes first succeeds and
\* raises likes_count by one, the insert of the other is refused and leaves
\* the table as it is.
C28_DuplicateLikeRace ==
    /\ [](/\ \A q \in DOMAIN likes : likes[q] <= 1
          /\ \A j, k \in Requests :
                /\ j # k
                /\ requests[k].op = "likeTweet" /\ requests[k].user # NoUser
                /\ LikeRequest(j, requests[k].user, requests[k].tweet)
                /\ requests[j].pc = "done" /\ requests[k].pc = "done"
                => /\ ~(requests[j].error = "" /\ requests[k].error = "")
                   /\ (requests[j].error \in {"", "User already liked this tweet"}
                       => CopiesIn(<<requests[k].user, requests[k].tweet>>, likes) = 1))
    /\ [][\A j, k \in Requests :
            /\ j # k
            /\ LikeRequest(j, requests[k].user, requests[k].tweet)
            /\ requests[j].pc \in {"insert", "done"}
            /\ LikeInsert(k)
            => IF BagIn(<<requests[k].user, requests[k].tweet>>, likes)
               THEN /\ likes' = likes
                    /\ requests'[k].error = "User already liked this tweet"
               ELSE /\ BagCardinality(likes') = BagCardinality(likes) + 1
                    /\ LikesCount(requests[k].tweet)' = LikesCount(requests[k].tweet) + 1
                    /\ requests'[k].error = ""]_vars

\* both requests of one user had passed validation before either insert ran:
\* one has succeeded, the other was refused by the constraint, one row
C28_Witness ==
    \E j, k \in Requests :
        /\ j # k /\ requests[k].user # NoUser
        /\ LikeRequest(k, requests[k].user, requests[k].tweet)
        /\ LikeRequest(j, requests[k].user, requests[k].tweet)
        /\ requests[j].pc = "done" /\ requests[j].error = ""
        /\ requests[k].pc = "done" /\ requests[k].error = "User already liked this tweet"
        /\ response.op = "likeTweet" /\ response.error = "User already liked this tweet"
        /\ CopiesIn(<<requests[k].user, requests[k].tweet>>, likes) = 1
        /\ LikesCount(requests[k].tweet) = 1

\* C26: the batch function answers a batch of user ids with an array of the
\* same length whose i-th element is the users row with the i-th id, or
\* undefined where no user has that id, in whatever order the database
\* returned the rows.
C26_LoaderKeepsOrder ==
    [][\A userIds \in Batches :
          UserLoader(userIds) =>
              /\ DOMAIN response'.rows = DOMAIN userIds
              /\ \A i \in DOMAIN userIds :
                    IF UserExists(userIds[i])
                    THEN response'.rows[i] \in users /\ response'.rows[i].id = userIds[i]
                    ELSE response'.rows[i] = undefined]_vars

\* a batch of three with a missing id first and the others in descending order
C26_Witness ==
    /\ response.op = "userLoader" /\ Len(response.rows) = 3
    /\ response.rows[1] = undefined
    /\ response.rows[2] \in users /\ response.rows[2].id = 3
    /\ response.rows[3] \in users /\ response.rows[3].id = 1
    /\ ~UserExists(2)

\* the addresses that createUserAvatarUrl turns into the URL url
EmailsOfUrl(url) == {email \in EmailTexts : createUserAvatarUrl(email) = url}

C29_UserDeleteCascadesToTweets ==
    [][\A u \in UserIds :
          DeleteUser(u) =>
              /\ \A r \in Rows(likes') \cup Rows(retweets') :
                    /\ r[2] \notin {x.id : x \in TweetsOf(u)}
                    /\ \E x \in tweets' : x.id = r[2]
              /\ \A q \in DOMAIN likes :
                    q[1] # u /\ q[2] \notin {x.id : x \in TweetsOf(u)}
                        => CopiesIn(q, likes') = CopiesIn(q, likes)
              /\ \A q \in DOMAIN retweets :
                    q[1] # u /\ q[2] \notin {x.id : x \in TweetsOf(u)}
                        => CopiesIn(q, retweets') = CopiesIn(q, retweets)]_vars

\* the author of a tweet was deleted; a user that is left keeps a like or
\* retweet on the tweet of a user that is left, and none on a tweet that is gone
C29_Witness ==
    /\ response.op = "deleteUser"
    /\ \E t \in TweetIds : t < nextTweetId /\ ~TweetExists(t)
    /\ \E r \in Rows(likes) \cup Rows(retweets) :
          /\ UserExists(r[1]) /\ TweetExists(r[2])
          /\ ~OwnTweet(r[1], r[2])
    /\ \A r \in Rows(likes) \cup Rows(retweets) : TweetExists(r[2])

\* C30: with no write in between, the pages homeFeed(l, 0), homeFeed(l, l),
\* homeFeed(l, 2l) of a feed of at most 3l tweets, one after the other, hold
\* every tweet of the feed exactly once, whatever answer each of the three
\* queries gives, also when tweets of the feed share their created_at.
C30_PagesCoverFeedOnce ==
    \A s \in Sessions :
        ReqUser(s) # NoUser =>
            \A l \in Limits :
                \A p0 \in homeFeed(ReqUser(s), l, 0),
                   p1 \in homeFeed(ReqUser(s), l, l),
                   p2 \in homeFeed(ReqUser(s), l, 2 * l) :
                    /\ Len(p0 \o p1 \o p2) = Cardinality(FeedGroups(ReqUser(s)))
                    /\ {(p0 \o p1 \o p2)[i] : i \in 1..Len(p0 \o p1 \o p2)} = FeedGroups(ReqUser(s))

====
